---- MODULE Spec2Model ----
(***************************************************************************)
(* Model of mammut.streaming.Stream: the streaming GET, the per-line read  *)
(* loop of Stream._run with its event accumulator, and the reflective      *)
(* dispatch of Stream._dispatch_event to the listener's on_<event> methods.*)
(*                                                                         *)
(* Python strings are sequences of one-character strings, so that          *)
(* str.startswith, str.split and += are computed and not assumed.  A dict  *)
(* is a function whose DOMAIN is its key set.                              *)
(***************************************************************************)
EXTENDS Integers, Sequences, FiniteSets, TLC

VARIABLES pc, status, event, calls, err, lines, conn, gets, request, cancelled,
          two, api

vars == <<pc, status, event, calls, err, lines, conn, gets, request, cancelled,
          two, api>>

\* Bound on the number of lines one connection yields before it ends.
MaxLines == 6

----------------------------------------------------------------------------
\* Text constants of the source.

SEP == <<":", " ">>
K_event == <<"e", "v", "e", "n", "t">>
K_data == <<"d", "a", "t", "a">>
ON_ == <<"o", "n", "_">>

N_update == <<"u", "p", "d", "a", "t", "e">>
N_notification == <<"n", "o", "t", "i", "f", "i", "c", "a", "t", "i", "o", "n">>
N_delete == <<"d", "e", "l", "e", "t", "e">>
N_mystery == <<"m", "y", "s", "t", "e", "r", "y">>

\* The methods a listener derived from AbstractStreamListner has.
ListenerMethods == {ON_ \o N_update, ON_ \o N_notification, ON_ \o N_delete}

\* Payload texts carried by the data lines of the sample streams.
V_open == <<"{", "\"", "a", "\"", ":", " ", "1">>
V_close == <<"}">>

\* Lines resp.iter_lines() may yield (already decoded).
L_blank == <<>>
L_thump == <<":", " ", "t", "h", "u", "m", "p">>
L_update == K_event \o SEP \o N_update
L_mystery == K_event \o SEP \o N_mystery
L_open == K_data \o SEP \o V_open
L_close == K_data \o SEP \o V_close
L_garbage == <<"g", "a", "r", "b", "a", "g", "e", "-", "n", "o", "-", "c", "o", "l", "o", "n">>

Lines == {L_blank, L_thump, L_update, L_mystery, L_open, L_close, L_garbage}

\* Constructor arguments of the Stream under study.
BaseUrl == [origin |-> "https://mstdn.example", path |-> "/web/"]
AccessToken == "s3cr3t"

\* Values of the tag argument of hashtag() and local_hashtag().
Tags == {"cats", "tla"}

\* HTTP statuses the streaming GET may answer with.
Statuses == {200, 401, 404, 503}

----------------------------------------------------------------------------
\* Python values and built-ins used by the source.

\* A Python str value, as a handler receives it.
PyStr(s) == [kind |-> "str", text |-> s]

\* event = {}
EmptyDict == [k \in {} |-> <<>>]

\* urllib.parse.urljoin(base_url, path) for a path that starts with '/': the
\* path of the base is replaced.
Urljoin(base, path) == [origin |-> base.origin, path |-> path]

\* self.session.headers after __init__.
SessionHeaders == [Authorization |-> "Bearer " \o AccessToken]

\* if params is None: params = {}
NoParams == [k \in {} |-> ""]

\* The state of the response's connection once resp.iter_lines() is
\* exhausted or has raised: urllib3 gives the connection back.  Nothing in
\* _run closes the response on any other path.
ConnAfterBodyEnd == "released"
ConnAfterLoopError(c) == c

\* Variant: _run starts over when the connection breaks.
OnTransportError_Reconnect == "idle"

\* Where _run goes when resp.iter_lines() raises: the error leaves _run.
OnTransportError == "raised"

\* Variant: an error raised by the handler is swallowed.
Propagates_NotFromHandler(e) == e \notin {"none", "HandlerError"}

\* Whether an error e of _dispatch_event leaves _run (no try in the loop).
Propagates(e) == e # "none"

\* Variant: only server errors raise.
RaisesForStatus_ServerOnly(s) == 500 <= s /\ s < 600

\* requests.Response.raise_for_status: HTTPError for 4xx and 5xx.
RaisesForStatus(s) == 400 <= s /\ s < 600

\* line.startswith(':')
StartsWithColon(line) == Len(line) > 0 /\ line[1] = ":"

\* Index of the first occurrence of ': ' in line, 0 when there is none.
FindSep(line) ==
  LET hits == {i \in 1..(Len(line) - 1) : line[i] = ":" /\ line[i + 1] = " "}
  IN IF hits = {} THEN 0 ELSE CHOOSE i \in hits : \A j \in hits : i <= j

\* Variant: the line is split at its last ': '.
Split_AtLast(line) ==
  LET hits == {i \in 1..(Len(line) - 1) : line[i] = ":" /\ line[i + 1] = " "}
      i == IF hits = {} THEN 0 ELSE CHOOSE h \in hits : \A j \in hits : j <= h
  IN IF i = 0 THEN <<line>>
     ELSE <<SubSeq(line, 1, i - 1), SubSeq(line, i + 2, Len(line))>>

\* line.split(': ', 1): a list of one or two strings.
Split(line) ==
  LET i == FindSep(line)
  IN IF i = 0 THEN <<line>>
     ELSE <<SubSeq(line, 1, i - 1), SubSeq(line, i + 2, Len(line))>>

\* Variant: a repeated key is overwritten by the later line.
Accumulate_Overwrite(ev, key, value) ==
  [k \in (DOMAIN ev) \cup {key} |-> IF k = key THEN value ELSE ev[k]]

\* if key in event: event[key] += value  else: event[key] = value
Accumulate(ev, key, value) ==
  IF key \in DOMAIN ev
  THEN [ev EXCEPT ![key] = @ \o value]
  ELSE ev @@ (key :> value)

\* "on_{event}".format(event=event['event'])
MethodName(ev) == ON_ \o ev[K_event]

\* The argument operator.methodcaller hands to the method: event['data'].
CallArg(ev) == PyStr(ev[K_data])

\* Variant: a missing data field is replaced by an empty payload.
DispatchEvent_DefaultData(ev, raises) ==
  IF K_event \notin DOMAIN ev THEN [err |-> "KeyError", calls |-> <<>>]
  ELSE IF MethodName(ev) \notin ListenerMethods
       THEN [err |-> "AttributeError", calls |-> <<>>]
  ELSE [err |-> IF raises THEN "HandlerError" ELSE "none",
        calls |-> <<[method |-> MethodName(ev),
                     arg |-> IF K_data \in DOMAIN ev THEN CallArg(ev) ELSE PyStr(<<>>)]>>]

\* Stream._dispatch_event: the error it ends with ("none" when it returns)
\* and the handler calls it makes.  raises says whether the listener's
\* handler, if called, raises.
DispatchEvent(ev, raises) ==
  IF K_event \notin DOMAIN ev THEN [err |-> "KeyError", calls |-> <<>>]
  ELSE IF K_data \notin DOMAIN ev THEN [err |-> "KeyError", calls |-> <<>>]
  ELSE IF MethodName(ev) \notin ListenerMethods
       THEN [err |-> "AttributeError", calls |-> <<>>]
  ELSE [err |-> IF raises THEN "HandlerError" ELSE "none",
        calls |-> <<[method |-> MethodName(ev), arg |-> CallArg(ev)]>>]

\* Variant: the newest call is put in front of the log.
RecordCalls_Prepend(log, new) == new \o log

\* The listener's call log after _dispatch_event made the calls new.
RecordCalls(log, new) == log \o new

\* Variant: the accumulator is kept after a dispatch.
AfterDispatch_Keep(ev) == ev

\* The accumulator after a dispatch that returned: event = {}
AfterDispatch(ev) == EmptyDict

\* Variant: a ':' line is split and stored like a field line.
AfterHeartbeat_AsField(ev, line) ==
  IF Len(Split(line)) = 2 THEN Accumulate(ev, Split(line)[1], Split(line)[2]) ELSE ev

\* The accumulator after a line starting with ':' (_handle_heartbeat prints).
AfterHeartbeat(ev, line) == ev

\* Variant: the pending event is flushed when the stream ends.
AtEndOfStream_Flush(ev) ==
  IF DOMAIN ev = {} THEN <<>> ELSE DispatchEvent(ev, FALSE).calls

\* The calls made when resp.iter_lines() is exhausted with ev accumulated.
AtEndOfStream(ev) == <<>>

\* json.loads on the payload texts of the sample streams: the one-member
\* object {"<k>": <digit>} decodes to a dict, any other text is not JSON.
Digits == {"0", "1", "2", "3", "4", "5", "6", "7", "8", "9"}
JsonLoads(s) ==
  IF /\ Len(s) = 8
     /\ s[1] = "{" /\ s[2] = "\"" /\ s[4] = "\"" /\ s[5] = ":" /\ s[6] = " "
     /\ s[7] \in Digits /\ s[8] = "}"
  THEN [kind |-> "dict", text |-> <<s[3], s[7]>>]
  ELSE [kind |-> "invalid", text |-> s]

\* Bodies of the responses of the REST API: one-member objects and a text
\* that is not JSON.
ObjText(k, d) == <<"{", "\"", k, "\"", ":", " ", d, "}">>
Bodies == {ObjText(k, d) : k \in {"a", "b"}, d \in Digits} \cup {V_open}
Responses == [status : Statuses, body : Bodies]

\* requests.Response.json() on a response of the model.
RespJson(resp) == JsonLoads(resp.body)

\* RawParser.parse and JsonParser.parse.
RawParse(resp) == resp
JsonParse(resp) == RespJson(resp)

\* The keyword arguments Mammut.__init__ accepts besides token and base_url.
InitKeywords == {}

\* Methods of the Mammut class that the model calls, and get_instance_info,
\* which the class does not define.
ApiMethods == {"get_account", "verify_credentials"}
CalledMethods == ApiMethods \cup {"get_instance_info"}

\* Mammut._request: the value returned or the error raised for resp.
ApiRequest(resp) ==
  IF RaisesForStatus(resp.status) THEN [err |-> "HTTPError"]
  ELSE IF RespJson(resp).kind = "invalid" THEN [err |-> "ValueError"]
  ELSE [err |-> "none", value |-> RespJson(resp)]

\* Two Stream objects, each with its own listener, running at once.
Sessions == {1, 2}

\* Variant: the accumulator is one dict shared by every _run call.
Frame_Shared(i) == 1

\* Where the accumulator of session i lives: event is a local variable of
\* that session's _run call.
Frame(i) == i

\* The body of the for loop as a function of the accumulator ev and the line:
\* where _run is afterwards, the accumulator, and the handler calls made.
LoopBody(ev, line, raises) ==
  IF line = <<>>
  THEN LET d == DispatchEvent(ev, raises)
       IN IF Propagates(d.err)
          THEN [pc |-> "raised", event |-> ev, calls |-> d.calls]
          ELSE [pc |-> "streaming", event |-> AfterDispatch(ev), calls |-> d.calls]
  ELSE IF StartsWithColon(line)
  THEN [pc |-> "streaming", event |-> AfterHeartbeat(ev, line), calls |-> <<>>]
  ELSE LET parts == Split(line)
       IN IF Len(parts) # 2
          THEN [pc |-> "raised", event |-> ev, calls |-> <<>>]
          ELSE [pc |-> "streaming", event |-> Accumulate(ev, parts[1], parts[2]),
                calls |-> <<>>]

----------------------------------------------------------------------------
\* State machine.

Init ==
  /\ pc = "idle"
  /\ status = 0
  /\ event = EmptyDict
  /\ calls = <<>>
  /\ err = "none"
  /\ lines = <<>>
  /\ conn = "none"
  /\ gets = 0
  /\ request = [call |-> <<>>]
  /\ cancelled = FALSE
  /\ two = [sess |-> [i \in Sessions |-> [pc |-> "idle", calls |-> <<>>, lines |-> <<>>]],
            acc |-> [f \in Sessions |-> EmptyDict]]
  /\ api = [pc |-> "none", parser |-> "none", err |-> "none"]

\* The GET that _run(path, params) issues; call is the entry point called,
\* with its argument.
Request(call, path, params) ==
  [call |-> call, url |-> Urljoin(BaseUrl, path), params |-> params,
   headers |-> SessionHeaders, stream |-> TRUE]

\* _run up to the loop: session.get answers with status s, raise_for_status.
Connect(rq, s) ==
  /\ pc = "idle"
  /\ request' = rq
  /\ gets' = gets + 1
  /\ conn' = "open"
  /\ status' = s
  /\ IF RaisesForStatus(s)
     THEN /\ pc' = "raised"
          /\ err' = "HTTPError"
     ELSE /\ pc' = "streaming"
          /\ err' = "none"
  /\ event' = EmptyDict
  /\ UNCHANGED <<calls, lines, cancelled, two, api>>

\* session.get itself raises (no connection could be made).
ConnectFail(rq) ==
  /\ pc = "idle"
  /\ request' = rq
  /\ gets' = gets + 1
  /\ pc' = "raised"
  /\ err' = "ConnectionError"
  /\ UNCHANGED <<status, event, calls, lines, conn, cancelled, two, api>>

\* _run(path, params) as called by the entry point call.
Run(call, path, params) ==
  \/ \E s \in Statuses : Connect(Request(call, path, params), s)
  \/ ConnectFail(Request(call, path, params))

\* The five entry points.
Public == Run(<<"public">>, "/api/v1/streaming/public", NoParams)
Local == Run(<<"local">>, "/api/v1/streaming/public/local", NoParams)
User == Run(<<"user">>, "/api/v1/streaming/user", NoParams)

\* Variant: the tag is not passed on.
HashtagParams_Dropped(tag) == NoParams

\* params={'tag': tag}
HashtagParams(tag) == [tag |-> tag]

Hashtag(tag) ==
  Run(<<"hashtag", tag>>, "/api/v1/streaming/hashtag", HashtagParams(tag))
LocalHashtag(tag) ==
  Run(<<"local_hashtag", tag>>, "/api/v1/streaming/hashtag/local", HashtagParams(tag))

\* One iteration of the for loop over resp.iter_lines(), on a blank line.
StepBlank(raises) ==
  LET d == DispatchEvent(event, raises)
  IN /\ calls' = RecordCalls(calls, d.calls)
     /\ err' = d.err
     /\ IF Propagates(d.err)
        THEN /\ pc' = "raised"
             /\ event' = event
             /\ conn' = ConnAfterLoopError(conn)
        ELSE /\ pc' = "streaming"
             /\ event' = AfterDispatch(event)
             /\ conn' = conn

\* One iteration on a non-blank line.
StepText(line) ==
  IF StartsWithColon(line)
  THEN /\ event' = AfterHeartbeat(event, line)
       /\ UNCHANGED <<pc, calls, err, conn>>
  ELSE LET parts == Split(line)
       IN IF Len(parts) # 2
          THEN /\ pc' = "raised"
               /\ err' = "ValueError"
               /\ conn' = ConnAfterLoopError(conn)
               /\ UNCHANGED <<event, calls>>
          ELSE /\ event' = Accumulate(event, parts[1], parts[2])
               /\ UNCHANGED <<pc, calls, err, conn>>

\* One iteration of the loop, on a connection that yields at most n lines.
ReadLineUpTo(n, line, raises) ==
  /\ pc = "streaming"
  /\ Len(lines) < n
  /\ lines' = Append(lines, line)
  /\ UNCHANGED <<status, gets, request, cancelled, two, api>>
  /\ IF line = <<>> THEN StepBlank(raises) ELSE StepText(line)

ReadLine(line, raises) == ReadLineUpTo(MaxLines, line, raises)

\* resp.iter_lines() is exhausted: the loop ends and _run returns None.
EndOfStream ==
  /\ pc = "streaming"
  /\ pc' = "returned"
  /\ calls' = RecordCalls(calls, AtEndOfStream(event))
  /\ conn' = ConnAfterBodyEnd
  /\ UNCHANGED <<status, event, err, lines, gets, request, cancelled, two, api>>

\* resp.iter_lines() raises (connection reset while reading).
TransportError ==
  /\ pc = "streaming"
  /\ pc' = OnTransportError
  /\ err' = "ConnectionError"
  /\ conn' = ConnAfterBodyEnd
  /\ UNCHANGED <<status, event, calls, lines, gets, request, cancelled, two, api>>

\* The read loop is the same whatever the path: it is explored in depth
\* behind public().
Next ==
  \/ Public
  \/ \E line \in Lines, raises \in BOOLEAN : ReadLine(line, raises)
  \/ EndOfStream
  \/ TransportError

Spec == Init /\ [][Next]_vars

\* The caller, from outside the blocked entry point, asks the session to stop.
\* Stream has no operation for it and the loop of _run tests nothing between
\* two lines, so the request changes nothing that _run reads.
RequestCancel ==
  /\ pc = "streaming"
  /\ ~cancelled
  /\ cancelled' = TRUE
  /\ UNCHANGED <<pc, status, event, calls, err, lines, conn, gets, request, two, api>>

NextCancel == Next \/ RequestCancel

SpecCancel == Init /\ [][NextCancel]_vars

\* Bound on the lines per connection, and the lines, when two sessions run.
MaxLinesTwo == 3
LinesTwo == {L_blank, L_update, L_open, L_close}

\* Session i: _run up to the loop, the GET having succeeded.
TwoStart(i) ==
  /\ two.sess[i].pc = "idle"
  /\ two' = [two EXCEPT !.sess[i].pc = "streaming", !.acc[Frame(i)] = EmptyDict]
  /\ UNCHANGED <<pc, status, event, calls, err, lines, conn, gets, request, cancelled, api>>

\* Session i: one iteration of its loop.
TwoRead(i, line) ==
  /\ two.sess[i].pc = "streaming"
  /\ Len(two.sess[i].lines) < MaxLinesTwo
  /\ LET r == LoopBody(two.acc[Frame(i)], line, FALSE)
     IN two' = [two EXCEPT !.sess[i] = [pc |-> r.pc,
                                        calls |-> RecordCalls(@.calls, r.calls),
                                        lines |-> Append(@.lines, line)],
                           !.acc[Frame(i)] = r.event]
  /\ UNCHANGED <<pc, status, event, calls, err, lines, conn, gets, request, cancelled, api>>

\* Session i: its stream ends.
TwoEnd(i) ==
  /\ two.sess[i].pc = "streaming"
  /\ two' = [two EXCEPT !.sess[i].pc = "returned"]
  /\ UNCHANGED <<pc, status, event, calls, err, lines, conn, gets, request, cancelled, api>>

NextTwo ==
  \E i \in Sessions :
    \/ TwoStart(i)
    \/ \E line \in LinesTwo : TwoRead(i, line)
    \/ TwoEnd(i)

SpecTwo == Init /\ [][NextTwo]_vars

\* Mammut(token, base_url) or Mammut(token, base_url, parser=<parser>).
ApiConstruct(parser) ==
  /\ api.pc = "none"
  /\ api' = IF parser = "none" \/ "parser" \in InitKeywords
            THEN [pc |-> "ready", parser |-> parser, err |-> "none"]
            ELSE [pc |-> "raised", parser |-> parser, err |-> "TypeError"]
  /\ UNCHANGED <<pc, status, event, calls, err, lines, conn, gets, request, cancelled, two>>

\* api.<m>() on a constructed client, the server answering resp.
ApiCall(m, resp) ==
  /\ api.pc = "ready"
  /\ api' = IF m \notin ApiMethods
            THEN [api EXCEPT !.pc = "raised", !.err = "AttributeError"]
            ELSE LET r == ApiRequest(resp)
                 IN IF r.err # "none"
                    THEN [pc |-> "raised", parser |-> api.parser, err |-> r.err,
                          method |-> m, resp |-> resp]
                    ELSE [pc |-> "returned", parser |-> api.parser, err |-> "none",
                          method |-> m, resp |-> resp, result |-> r.value]
  /\ UNCHANGED <<pc, status, event, calls, err, lines, conn, gets, request, cancelled, two>>

NextApi ==
  \/ \E parser \in {"none", "RawParser", "JsonParser"} : ApiConstruct(parser)
  \/ \E m \in CalledMethods, resp \in Responses : ApiCall(m, resp)

SpecApi == Init /\ [][NextApi]_vars

\* Bound on the lines per connection when all five entry points are explored.
MaxLinesEntry == 2

NextEntry ==
  \/ Public
  \/ Local
  \/ User
  \/ \E tag \in Tags : Hashtag(tag)
  \/ \E tag \in Tags : LocalHashtag(tag)
  \/ \E line \in Lines, raises \in BOOLEAN : ReadLineUpTo(MaxLinesEntry, line, raises)
  \/ EndOfStream
  \/ TransportError

SpecEntry == Init /\ [][NextEntry]_vars

----------------------------------------------------------------------------
\* Vocabulary of the properties: the wire grammar, read off the lines the
\* connection has yielded so far.

Last(s) == s[Len(s)]

\* A field line '<key>: <value>': it has a ': ' and does not start with ':'.
IsComment(l) == Len(l) >= 1 /\ l[1] = ":"
SepAt(l, i) == l[i] = ":" /\ l[i + 1] = " "
IsField(l) == ~IsComment(l) /\ \E i \in 1..(Len(l) - 1) : SepAt(l, i)
IsMalformed(l) == l # <<>> /\ ~IsComment(l) /\ ~IsField(l)
FirstSep(l) ==
  CHOOSE i \in 1..(Len(l) - 1) : SepAt(l, i) /\ \A j \in 1..(i - 1) : ~SepAt(l, j)
KeyOf(l) == SubSeq(l, 1, FirstSep(l) - 1)
ValueOf(l) == SubSeq(l, FirstSep(l) + 2, Len(l))

\* Positions of the blank lines of ls, and the lines of the event that the
\* n-th blank line ends.
BlankIdx(ls) == {i \in 1..Len(ls) : ls[i] = <<>>}
NumBlank(ls) == Cardinality(BlankIdx(ls))
NthBlank(ls, n) ==
  IF n = 0 THEN 0
  ELSE CHOOSE i \in BlankIdx(ls) : Cardinality({j \in BlankIdx(ls) : j <= i}) = n
Chunk(ls, n) == SubSeq(ls, NthBlank(ls, n - 1) + 1, NthBlank(ls, n) - 1)
\* The lines read since the last blank line.
CurLines(ls) ==
  LET B == BlankIdx(ls)
      last == IF B = {} THEN 0 ELSE CHOOSE i \in B : \A j \in B : j <= i
  IN SubSeq(ls, last + 1, Len(ls))

\* The field lines of ls that carry key k.
WithKey(k, ls) == SelectSeq(ls, LAMBDA l : IsField(l) /\ KeyOf(l) = k)

\* The values of the field lines of ls that carry key k, joined in order.
RECURSIVE Join(_)
Join(ls) == IF ls = <<>> THEN <<>> ELSE ValueOf(Head(ls)) \o Join(Tail(ls))
ConcatValues(k, ls) == Join(WithKey(k, ls))

KeysOf(ls) == {KeyOf(ls[i]) : i \in {j \in 1..Len(ls) : IsField(ls[j])}}

\* The field map of the event made of the lines ls.
Reduce(ls) == [k \in KeysOf(ls) |-> ConcatValues(k, ls)]

\* The lines ls make an event with an event and a data field whose name has
\* a handler on the listener.
Dispatchable(ls) ==
  /\ K_event \in KeysOf(ls)
  /\ K_data \in KeysOf(ls)
  /\ (ON_ \o ConcatValues(K_event, ls)) \in ListenerMethods

\* The call the event made of the lines ls is handed to the listener with.
CallOf(ls) ==
  [method |-> ON_ \o ConcatValues(K_event, ls), arg |-> PyStr(ConcatValues(K_data, ls))]

\* A step of the read loop that consumes the line l.
Reads(l) == pc = "streaming" /\ lines' = Append(lines, l)

----------------------------------------------------------------------------
\* C1: when a blank line follows field lines that include an event and a
\* data line naming an existing handler, exactly one call is made, built from
\* exactly those lines, and a loop that goes on holds an empty accumulator;
\* at any time the accumulator holds only keys of lines read since the last
\* blank line, so no field of a dispatched event is in the next event.
C1_FlushOnceThenReset ==
  [][ /\ (Reads(<<>>) /\ Dispatchable(CurLines(lines)))
         => /\ calls' = Append(calls, CallOf(CurLines(lines)))
            /\ pc' = "streaming" => event' = EmptyDict
            /\ pc' = "raised" => err' = "HandlerError"
      /\ pc' = "streaming" => DOMAIN event' = KeysOf(CurLines(lines'))
    ]_vars

C1_Witness ==
  /\ pc = "streaming"
  /\ Len(lines) = 4
  /\ lines[3] = <<>>
  /\ lines[4] = L_close
  /\ Len(calls) = 1
  /\ DOMAIN event = {K_data}

\* C2: while the loop runs, every key of the accumulator holds the values of
\* the lines of the current event that carry that key, joined in arrival
\* order with nothing in between; no line's value is lost or overwritten.
C2_RepeatedKeysConcatenate ==
  pc = "streaming" => event = Reduce(CurLines(lines))

C2_Witness ==
  /\ pc = "streaming"
  /\ lines = <<L_open, L_thump, L_update, L_close>>
  /\ event[K_data] = V_open \o V_close

\* C3: a step that reads a line starting with ':' leaves the accumulator as
\* it was, calls no handler and raises nothing.
C3_HeartbeatIsInert ==
  [][ (\E l \in Lines : IsComment(l) /\ Reads(l))
      => /\ event' = event
         /\ calls' = calls
         /\ pc' = "streaming"
         /\ err' = err
    ]_vars

C3_Witness ==
  /\ pc = "streaming"
  /\ Len(lines) = 3
  /\ lines[3] = L_thump
  /\ DOMAIN event = {K_event, K_data}

\* C4: a blank line read while the lines of the current event carry no event
\* field calls no handler and raises nothing: the loop goes on.
C4_BlankWithoutEventIsSkipped ==
  [][ (Reads(<<>>) /\ K_event \notin KeysOf(CurLines(lines)))
      => /\ calls' = calls
         /\ pc' = "streaming"
         /\ err' = "none"
    ]_vars

\* C5: a non-empty line that does not start with ':' and has no ': ' raises
\* nothing, does not end the loop and leaves the accumulator as it was.
C5_MalformedLineIsIgnored ==
  [][ (\E l \in Lines : IsMalformed(l) /\ Reads(l))
      => /\ event' = event
         /\ calls' = calls
         /\ pc' = "streaming"
         /\ err' = "none"
    ]_vars

\* C6: a completed event whose name has no on_<event> method on the listener
\* causes no handler call and no error: the loop goes on.
C6_UnknownEventIsSkipped ==
  [][ ( /\ Reads(<<>>)
        /\ K_event \in KeysOf(CurLines(lines))
        /\ K_data \in KeysOf(CurLines(lines))
        /\ ~Dispatchable(CurLines(lines)) )
      => /\ calls' = calls
         /\ pc' = "streaming"
         /\ err' = "none"
    ]_vars

\* C7: a completed event whose name X has a handler causes exactly one call,
\* to on_X, whose argument is the JSON-decoded value of the data field.
C7_HandlerGetsDecodedData ==
  [][ ( /\ Reads(<<>>)
        /\ Dispatchable(CurLines(lines))
        /\ JsonLoads(ConcatValues(K_data, CurLines(lines))).kind # "invalid" )
      => calls' = Append(calls,
                    [method |-> ON_ \o ConcatValues(K_event, CurLines(lines)),
                     arg |-> JsonLoads(ConcatValues(K_data, CurLines(lines)))])
    ]_vars

\* C8: the i-th handler call is the dispatch of the event ended by the i-th
\* blank line, and while the loop runs every blank line read has had its
\* call: calls are made in the order of the terminators, one at a time.
C8_CallsFollowTerminatorOrder ==
  /\ Len(calls) <= NumBlank(lines)
  /\ \A i \in 1..Len(calls) : calls[i] = CallOf(Chunk(lines, i))
  /\ pc \in {"streaming", "returned"} => Len(calls) = NumBlank(lines)

C8_Witness ==
  /\ pc = "streaming"
  /\ Len(calls) = 2
  /\ calls[1] = [method |-> ON_ \o N_update, arg |-> PyStr(V_open)]
  /\ calls[2] = [method |-> ON_ \o N_update, arg |-> PyStr(V_close)]

\* C9: when the stream ends after field lines that no blank line followed,
\* _run has returned without error and the pending event was not dispatched:
\* the calls made are those of the blank lines read, no more.
C9_PartialEventIsDiscarded ==
  (pc = "returned" /\ CurLines(lines) # <<>>)
    => /\ err = "none"
       /\ Len(calls) = NumBlank(lines)

C9_Witness ==
  /\ pc = "returned"
  /\ lines = <<L_update, L_open, L_close>>
  /\ calls = <<>>

\* C10: after the streaming GET answered with an error status (4xx, 5xx),
\* _run has raised HTTPError, no line was read and no handler was called.
C10_ErrorStatusNeverStreams ==
  status >= 400
    => /\ pc = "raised"
       /\ err = "HTTPError"
       /\ lines = <<>>
       /\ calls = <<>>

C10_Witness ==
  /\ status = 503
  /\ pc = "raised"

\* C11: whenever the read loop exits (end of stream, or any error leaving
\* _run), the connection of the response is no longer open.
C11_LoopExitClosesConnection ==
  [][ (pc = "streaming" /\ pc' # "streaming") => conn' # "open" ]_vars

\* C14: one call issues one GET and never starts over: once _run has returned
\* or raised nothing more happens, a raise carries an error, and when the
\* connection breaks in mid-stream every event completed before has had its
\* call and the break itself makes none.
C14_OneGetNoRetry ==
  [][ /\ gets' <= 1
      /\ pc \in {"returned", "raised"}
         => (pc' = pc /\ gets' = gets /\ calls' = calls /\ lines' = lines)
      /\ pc' = "raised" => err' # "none"
      /\ (pc = "streaming" /\ pc' # "streaming" /\ err' = "ConnectionError")
         => (pc' = "raised" /\ calls' = calls /\ Len(calls) = NumBlank(lines))
    ]_vars

C14_Witness ==
  /\ pc = "raised"
  /\ err = "ConnectionError"
  /\ gets = 1
  /\ Len(calls) = 1
  /\ lines = <<L_update, L_open, <<>>, L_update>>

\* C15: the GET of each entry point goes to that entry point's path on the
\* origin of base_url with the header Authorization: Bearer <access token>;
\* public, local and user send no query parameter, hashtag(tag) and
\* local_hashtag(tag) send exactly tag=<tag>.
C15_EntryPointRequests ==
  request.call # <<>> =>
    /\ request.headers = [Authorization |-> "Bearer s3cr3t"]
    /\ request.url.origin = "https://mstdn.example"
    /\ request.call[1] = "public"
       => request.url.path = "/api/v1/streaming/public" /\ DOMAIN request.params = {}
    /\ request.call[1] = "local"
       => request.url.path = "/api/v1/streaming/public/local" /\ DOMAIN request.params = {}
    /\ request.call[1] = "user"
       => request.url.path = "/api/v1/streaming/user" /\ DOMAIN request.params = {}
    /\ request.call[1] = "hashtag"
       => /\ request.url.path = "/api/v1/streaming/hashtag"
          /\ DOMAIN request.params = {"tag"}
          /\ request.params["tag"] = request.call[2]
    /\ request.call[1] = "local_hashtag"
       => /\ request.url.path = "/api/v1/streaming/hashtag/local"
          /\ DOMAIN request.params = {"tag"}
          /\ request.params["tag"] = request.call[2]

C15_Witness ==
  /\ request.call = <<"local_hashtag", "tla">>
  /\ pc = "streaming"
  /\ Len(lines) = 1

\* C12: once the caller has asked an in-progress session to stop, no further
\* line is read, no handler is called, and the connection does not stay open.
C12_CancelStopsSession ==
  [][ cancelled => (lines' = lines /\ calls' = calls /\ conn' # "open") ]_vars

\* C13: a completed event that names an existing handler but whose data is
\* not valid JSON calls no handler and ends _run with an error.
C13_InvalidJsonNotDelivered ==
  [][ ( /\ Reads(<<>>)
        /\ Dispatchable(CurLines(lines))
        /\ JsonLoads(ConcatValues(K_data, CurLines(lines))).kind = "invalid" )
      => /\ calls' = calls
         /\ pc' = "raised"
         /\ err' # "none"
    ]_vars

\* C18: a step that reads a field line stores, under the text before the
\* line's first ': ', everything after that first ': ' (appended to what the
\* key held); no other key appears or changes and the loop goes on.
C18_SplitAtFirstSeparatorOnly ==
  [][ \A l \in Lines :
        (IsField(l) /\ Reads(l)) =>
          /\ pc' = "streaming"
          /\ DOMAIN event' = DOMAIN event \cup {KeyOf(l)}
          /\ event'[KeyOf(l)] =
               (IF KeyOf(l) \in DOMAIN event THEN event[KeyOf(l)] ELSE <<>>) \o ValueOf(l)
          /\ \A k \in DOMAIN event : k # KeyOf(l) => event'[k] = event[k]
    ]_vars

C18_Witness ==
  /\ pc = "streaming"
  /\ lines = <<L_update, L_open>>
  /\ event[K_data] = <<"{", "\"", "a", "\"", ":", " ", "1">>
  /\ DOMAIN event = {K_event, K_data}

\* C19: when the handler raises, the error leaves _run in that very step,
\* and after it no line is read and no handler is called.
C19_HandlerErrorEndsSession ==
  [][ /\ err' = "HandlerError" => pc' = "raised"
      /\ err = "HandlerError" => (lines' = lines /\ calls' = calls /\ pc' = "raised")
    ]_vars

C19_Witness ==
  /\ err = "HandlerError"
  /\ pc = "raised"
  /\ lines = <<L_update, L_close, <<>> >>
  /\ Len(calls) = 1

\* C20: a blank line that ends an event with an event field and no data field
\* calls no handler and ends _run with KeyError.
C20_EventWithoutDataRaises ==
  [][ ( /\ Reads(<<>>)
        /\ K_event \in KeysOf(CurLines(lines))
        /\ K_data \notin KeysOf(CurLines(lines)) )
      => /\ calls' = calls
         /\ pc' = "raised"
         /\ err' = "KeyError"
    ]_vars

C20_Witness ==
  /\ lines = <<L_update, <<>> >>
  /\ pc = "raised"
  /\ err = "KeyError"
  /\ calls = <<>>

\* C16: with two sessions interleaved in any way, each listener's calls and
\* each session's accumulator are those of that session's own lines alone:
\* the k-th call of a session is the call of the event its k-th blank line
\* ended, and no field of a line read by the other session is in them.
C16_SessionsIndependent ==
  \A i \in Sessions :
    LET s == two.sess[i]
    IN /\ Len(s.calls) <= NumBlank(s.lines)
       /\ \A k \in 1..Len(s.calls) : s.calls[k] = CallOf(Chunk(s.lines, k))
       /\ s.pc \in {"streaming", "returned"} => Len(s.calls) = NumBlank(s.lines)
       /\ s.pc = "streaming" => two.acc[i] = Reduce(CurLines(s.lines))
       /\ s.pc = "raised" => ~Dispatchable(CurLines(SubSeq(s.lines, 1, Len(s.lines) - 1)))

C16_Witness ==
  /\ two.sess[1] = [pc |-> "streaming", lines |-> <<L_update, L_open, <<>> >>,
                    calls |-> <<[method |-> ON_ \o N_update, arg |-> PyStr(V_open)]>>]
  /\ two.sess[2] = [pc |-> "streaming", lines |-> <<L_update, L_close, <<>> >>,
                    calls |-> <<[method |-> ON_ \o N_update, arg |-> PyStr(V_close)]>>]

\* C17: the client can be constructed with a parser argument, and what an
\* API method (get_instance_info in the test) returns is that parser's parse
\* of the response: the response itself with RawParser, its decoded JSON with
\* JsonParser.
C17_ParserDecidesResult ==
  /\ api.parser # "none" => api.err # "TypeError"
  /\ api.pc = "raised" => api.err # "AttributeError"
  /\ (api.pc = "returned" /\ api.parser = "RawParser")
     => api.result = RawParse(api.resp)
  /\ (api.pc = "returned" /\ api.parser = "JsonParser")
     => api.result = JsonParse(api.resp)

====
